---- MODULE Spec2Model ----
(***************************************************************************)
(* Model of adaptis/model/metrics.py: the two training metrics AdaptiveIoU *)
(* and AUC (update / get_epoch_value / reset_epoch_stats) and the two pure *)
(* helpers _compute_iou and _compute_auc.                                  *)
(*                                                                         *)
(* Real numbers are exact rationals <<numerator, denominator>> in lowest   *)
(* terms with a positive denominator; <<0, 0>> is NaN (the mean of an      *)
(* empty array).  Rounding of binary floating point is not modelled.       *)
(* Arrays of shape (N, P) are sequences of N samples of P positions each.  *)
(***************************************************************************)
EXTENDS Integers, Sequences, FiniteSets

(***************************************************************************)
(* Bounds.                                                                 *)
(***************************************************************************)
NSamples == 2      \* batch dimension N of pred and gt
NPixels == 2       \* positions per sample (all non-batch axes, flattened)
MaxUpdates == 2    \* update calls made on one metric instance

(***************************************************************************)
(* Rational arithmetic.                                                    *)
(***************************************************************************)
Abs(x) == IF x < 0 THEN -x ELSE x

RECURSIVE GCD(_, _)
GCD(a, b) == IF b = 0 THEN a ELSE GCD(b, a % b)

NaN == <<0, 0>>
IsNaN(a) == a[2] = 0

Rat(n, d) ==
    IF d = 0 THEN NaN
    ELSE LET g == GCD(Abs(n), Abs(d))
             s == IF d < 0 THEN -1 ELSE 1
         IN <<(s * n) \div g, (s * d) \div g>>

Zero == <<0, 1>>
One == <<1, 1>>

RAdd(a, b) ==
    IF IsNaN(a) \/ IsNaN(b) THEN NaN
    ELSE LET g == GCD(a[2], b[2])
         IN Rat(a[1] * (b[2] \div g) + b[1] * (a[2] \div g), (a[2] \div g) * b[2])

RNeg(a) == <<-a[1], a[2]>>
RSub(a, b) == RAdd(a, RNeg(b))

RMul(a, b) ==
    IF IsNaN(a) \/ IsNaN(b) THEN NaN
    ELSE LET g1 == GCD(Abs(a[1]), b[2])
             g2 == GCD(Abs(b[1]), a[2])
         IN Rat((a[1] \div g1) * (b[1] \div g2), (a[2] \div g2) * (b[2] \div g1))

\* a / b; 0/0 is NaN as in numpy (x/0 with x # 0 does not arise: callers divide
\* by a strictly positive union or count).
RDiv(a, b) ==
    IF IsNaN(a) \/ IsNaN(b) \/ b[1] = 0 THEN NaN
    ELSE RMul(a, IF b[1] < 0 THEN <<-b[2], -b[1]>> ELSE <<b[2], b[1]>>)

\* Comparisons with NaN are false, as in IEEE arithmetic.
RLess(a, b) ==
    /\ ~IsNaN(a)
    /\ ~IsNaN(b)
    /\ LET g == GCD(a[2], b[2]) IN a[1] * (b[2] \div g) < b[1] * (a[2] \div g)

RLeq(a, b) == ~IsNaN(a) /\ ~IsNaN(b) /\ ~RLess(b, a)
RAbs(a) == <<Abs(a[1]), a[2]>>

RECURSIVE RSum(_)
RSum(s) == IF Len(s) = 0 THEN Zero ELSE RAdd(s[1], RSum(Tail(s)))

\* numpy's ndarray.mean(): NaN for an empty array.
Mean(s) == IF Len(s) = 0 THEN NaN ELSE RDiv(RSum(s), <<Len(s), 1>>)

(***************************************************************************)
(* Constructor arguments (defaults of AdaptiveIoU.__init__, AUC.__init__). *)
(***************************************************************************)
init_thresh == <<2, 5>>        \* 0.4
thresh_step == <<1, 40>>       \* 0.025
thresh_beta == <<99, 100>>     \* 0.99
iou_beta == <<9, 10>>          \* 0.9
beta == <<9, 10>>              \* 0.9
ignore_label == -1

None == "None"

(***************************************************************************)
(* Inputs of update: a batch is an (NSamples, NPixels) array of            *)
(* <<raw prediction, ground truth>> positions.  Raw predictions are logits *)
(* when from_logits holds and probabilities otherwise; the three levels    *)
(* fall below, between and above the candidate thresholds around 0.4.      *)
(***************************************************************************)
Levels == {"lo", "mid", "hi"}

\* The raw prediction of a level: a logit, or the probability itself.
Raw(fl, lv) ==
    IF fl THEN (CASE lv = "lo" -> <<-9, 20>>       \* -0.45
                  [] lv = "mid" -> <<-9, 25>>      \* -0.36
                  [] lv = "hi" -> <<11, 5>>)       \*  2.2
    ELSE (CASE lv = "lo" -> <<39, 100>>
            [] lv = "mid" -> <<41, 100>>
            [] lv = "hi" -> <<9, 10>>)

\* Position kinds <<level, gt>>: a confident and a marginal positive, a marginal
\* negative, and an ignored position predicted positive.
PixelKinds ==
    {<<"hi", 1>>, <<"lo", 1>>, <<"mid", 0>>, <<"hi", ignore_label>>}

BatchShapes == [1..NSamples -> [1..NPixels -> PixelKinds]]

PredOf(fl, b) == [i \in 1..NSamples |-> [j \in 1..NPixels |-> Raw(fl, b[i][j][1])]]
GtOf(b) == [i \in 1..NSamples |-> [j \in 1..NPixels |-> b[i][j][2]]]

\* The batches (pred, gt) a training loop can hand to update.
LogitBatches == {[pred |-> PredOf(TRUE, b), gt |-> GtOf(b)] : b \in BatchShapes}
ProbabilityBatches == {[pred |-> PredOf(FALSE, b), gt |-> GtOf(b)] : b \in BatchShapes}
Batches(fl) == IF fl THEN LogitBatches ELSE ProbabilityBatches

(***************************************************************************)
(* Array operations of mxnet / numpy used by the metrics.                  *)
(***************************************************************************)
\* mx.nd.sigmoid on the logits above, rounded to two decimals.
sigmoid(x) ==
    CASE x = <<-9, 20>> -> <<39, 100>>
      [] x = <<-9, 25>> -> <<41, 100>>
      [] x = <<11, 5>> -> <<9, 10>>
      [] x = Zero -> <<1, 2>>

nd_sigmoid(a) == [i \in DOMAIN a |-> [j \in DOMAIN a[i] |-> sigmoid(a[i][j])]]

\* gt > 0
GreaterZero(g) == [i \in DOMAIN g |-> [j \in DOMAIN g[i] |-> g[i][j] > 0]]

\* gt == label
EqualTo(g, label) == [i \in DOMAIN g |-> [j \in DOMAIN g[i] |-> g[i][j] = label]]

\* pred > t
GreaterThan(a, t) == [i \in DOMAIN a |-> [j \in DOMAIN a[i] |-> RLess(t, a[i][j])]]

\* mx.nd.sum(mask, axis=0, exclude=True): per-sample count of true positions
nd_sum(mask) == [i \in DOMAIN mask |-> Cardinality({j \in DOMAIN mask[i] : mask[i][j]})]

\* mx.nd.mean(mask, axis=0, exclude=True): per-sample fraction of true positions
nd_mean(mask) ==
    [i \in DOMAIN mask |->
        Rat(Cardinality({j \in DOMAIN mask[i] : mask[i][j]}), Len(mask[i]))]

\* np.all(a == 0)
np_all_zero(a) == \A i \in DOMAIN a : a[i] = 0

(***************************************************************************)
(* _compute_iou(pred_mask, gt_mask, ignore_mask, keep_ignore)              *)
(***************************************************************************)
\* An overlap that leaves the predictions at ignored positions in place.
_compute_iou_NoIgnore(pred_mask, gt_mask, ignore_mask, keep_ignore) ==
    LET pm == pred_mask
        union == nd_mean([i \in DOMAIN pm |-> [j \in DOMAIN pm[i] |->
                            pm[i][j] \/ gt_mask[i][j]]])
        intersection == nd_mean([i \in DOMAIN pm |-> [j \in DOMAIN pm[i] |->
                            pm[i][j] /\ gt_mask[i][j]]])
        nonzero == [i \in DOMAIN union |-> RLess(Zero, union[i])]
        idx == SelectSeq([i \in DOMAIN union |-> i], LAMBDA i : nonzero[i])
        iou == [k \in 1..Len(idx) |-> RDiv(intersection[idx[k]], union[idx[k]])]
    IN IF ~keep_ignore THEN iou
       ELSE [i \in DOMAIN intersection |->
                IF nonzero[i]
                THEN iou[Cardinality({m \in 1..i : nonzero[m]})]
                ELSE <<-1, 1>>]

\* An overlap that fills the samples with an empty union with zero in the
\* default mode instead of dropping them.
_compute_iou_ZeroFill(pred_mask, gt_mask, ignore_mask, keep_ignore) ==
    LET pm == [i \in DOMAIN pred_mask |-> [j \in DOMAIN pred_mask[i] |->
                  IF ignore_mask[i][j] THEN FALSE ELSE pred_mask[i][j]]]
        union == nd_mean([i \in DOMAIN pm |-> [j \in DOMAIN pm[i] |->
                            pm[i][j] \/ gt_mask[i][j]]])
        intersection == nd_mean([i \in DOMAIN pm |-> [j \in DOMAIN pm[i] |->
                            pm[i][j] /\ gt_mask[i][j]]])
    IN [i \in DOMAIN union |->
           IF RLess(Zero, union[i]) THEN RDiv(intersection[i], union[i])
           ELSE IF keep_ignore THEN <<-1, 1>> ELSE Zero]

\* An overlap that divides for every sample, the ones with an empty union too.
_compute_iou_NoFilter(pred_mask, gt_mask, ignore_mask, keep_ignore) ==
    LET pm == [i \in DOMAIN pred_mask |-> [j \in DOMAIN pred_mask[i] |->
                  IF ignore_mask[i][j] THEN FALSE ELSE pred_mask[i][j]]]
        union == nd_mean([i \in DOMAIN pm |-> [j \in DOMAIN pm[i] |->
                            pm[i][j] \/ gt_mask[i][j]]])
        intersection == nd_mean([i \in DOMAIN pm |-> [j \in DOMAIN pm[i] |->
                            pm[i][j] /\ gt_mask[i][j]]])
    IN [i \in DOMAIN union |-> RDiv(intersection[i], union[i])]

_compute_iou(pred_mask, gt_mask, ignore_mask, keep_ignore) ==
    LET pm == [i \in DOMAIN pred_mask |-> [j \in DOMAIN pred_mask[i] |->
                  IF ignore_mask[i][j] THEN FALSE ELSE pred_mask[i][j]]]
        union == nd_mean([i \in DOMAIN pm |-> [j \in DOMAIN pm[i] |->
                            pm[i][j] \/ gt_mask[i][j]]])
        intersection == nd_mean([i \in DOMAIN pm |-> [j \in DOMAIN pm[i] |->
                            pm[i][j] /\ gt_mask[i][j]]])
        nonzero == [i \in DOMAIN union |-> RLess(Zero, union[i])]
        idx == SelectSeq([i \in DOMAIN union |-> i], LAMBDA i : nonzero[i])
        iou == [k \in 1..Len(idx) |-> RDiv(intersection[idx[k]], union[idx[k]])]
    IN IF ~keep_ignore THEN iou
       ELSE [i \in DOMAIN intersection |->
                IF nonzero[i]
                THEN iou[Cardinality({m \in 1..i : nonzero[m]})]
                ELSE <<-1, 1>>]

(***************************************************************************)
(* sklearn.metrics.precision_recall_curve and sklearn.metrics.auc, on one  *)
(* flattened sample (y_true a boolean sequence, probas_pred a sequence of  *)
(* scores).  One curve point per distinct score, scores descending:        *)
(* precision = tps / (tps + fps), recall = tps / tps[-1]; the arrays are   *)
(* returned reversed with the point (precision 1, recall 0) appended.      *)
(* (Releases that cut the curve at the first point of full recall drop     *)
(* only points of recall 1, which span no width under the trapezoid rule.) *)
(***************************************************************************)
RMax(S) == CHOOSE m \in S : \A x \in S : ~RLess(m, x)

RECURSIVE Descending(_)
Descending(S) == IF S = {} THEN <<>> ELSE <<RMax(S)>> \o Descending(S \ {RMax(S)})

Reverse(s) == [k \in 1..Len(s) |-> s[Len(s) + 1 - k]]

precision_recall_curve(y_true, probas_pred) ==
    LET thresholds == Descending({probas_pred[j] : j \in DOMAIN probas_pred})
        above(v) == {j \in DOMAIN probas_pred : ~RLess(probas_pred[j], v)}
        tps == [k \in 1..Len(thresholds) |->
                   Cardinality({j \in above(thresholds[k]) : y_true[j]})]
        fps == [k \in 1..Len(thresholds) |->
                   Cardinality({j \in above(thresholds[k]) : ~y_true[j]})]
        precision == [k \in 1..Len(thresholds) |-> Rat(tps[k], tps[k] + fps[k])]
        recall == [k \in 1..Len(thresholds) |-> Rat(tps[k], tps[Len(tps)])]
    IN <<Reverse(precision) \o <<One>>, Reverse(recall) \o <<Zero>>>>

\* np.trapz(y, x)
RECURSIVE trapz(_, _)
trapz(y, x) ==
    IF Len(x) < 2 THEN Zero
    ELSE RAdd(RMul(RSub(x[2], x[1]), RMul(<<1, 2>>, RAdd(y[1], y[2]))),
              trapz(Tail(y), Tail(x)))

\* sklearn.metrics.auc(x, y): x must be monotonic; a decreasing x flips the sign.
sk_auc(x, y) ==
    LET direction == IF \E k \in 1..(Len(x) - 1) : RLess(x[k + 1], x[k])
                     THEN <<-1, 1>> ELSE One
    IN RMul(direction, trapz(y, x))

(***************************************************************************)
(* _compute_auc(pred, gt_mask, ignore_mask)                                *)
(***************************************************************************)
\* The two library calls of the loop body of _compute_auc on one sample.
sample_auc(sample_gt, sample_pred) ==
    LET curve == precision_recall_curve(sample_gt, sample_pred)
    IN sk_auc(curve[2], curve[1])

\* A reduction that counts a sample without positives as zero instead of skipping it.
_compute_auc_ZeroFill(pred_, gt_mask, ignore_mask) ==
    LET p == [i \in DOMAIN pred_ |-> [j \in DOMAIN pred_[i] |->
                 IF ignore_mask[i][j] THEN Zero ELSE pred_[i][j]]]
    IN [i \in DOMAIN p |->
           IF Cardinality({j \in DOMAIN gt_mask[i] : gt_mask[i][j]}) = 0
           THEN Zero
           ELSE sample_auc(gt_mask[i], p[i])]

_compute_auc(pred_, gt_mask, ignore_mask) ==
    LET p == [i \in DOMAIN pred_ |-> [j \in DOMAIN pred_[i] |->
                 IF ignore_mask[i][j] THEN Zero ELSE pred_[i][j]]]
        kept == SelectSeq([i \in DOMAIN p |-> i],
                          LAMBDA i : Cardinality({j \in DOMAIN gt_mask[i] : gt_mask[i][j]}) # 0)
    IN [k \in 1..Len(kept) |-> sample_auc(gt_mask[kept[k]], p[kept[k]])]

(***************************************************************************)
(* State: one metric instance (cls is its class), the call in progress on  *)
(* it (pc) and the last method called with its arguments and locals.       *)
(***************************************************************************)
VARIABLES
    cls,                \* "AdaptiveIoU" or "AUC"
    from_logits,        \* self._from_logits
    iou_thresh,         \* AdaptiveIoU._iou_thresh
    ema_iou,            \* AdaptiveIoU._ema_iou
    epoch_iou_sum,      \* AdaptiveIoU._epoch_iou_sum
    ema_auc,            \* AUC._ema_auc
    epoch_auc_sum,      \* AUC._epoch_auc_sum
    epoch_batch_count,  \* self._epoch_batch_count
    pc,                 \* "idle", or the function that is to run: "update", "_compute_iou"
    op,                 \* the last method called
    pred, gt,           \* the arguments of the last call, when it is update
    locals,             \* the locals of the last update at its return
    ret,                \* the value the last get_epoch_value returned
    scores,             \* history: the locals of the updates since the last reset whose gt had a positive
    nupd,               \* history: the number of update calls so far
    old,                \* history: the fields, and the method before, at the last call
    contributed,        \* history: an update whose gt had a positive has returned
    ov_in,              \* arguments pred, gt_mask, ignore_mask of a use of _compute_iou
    ov_out              \* what _compute_iou returned for them, per threshold and mode

fields == <<iou_thresh, ema_iou, epoch_iou_sum, ema_auc, epoch_auc_sum, epoch_batch_count>>
config == <<cls, from_logits>>
overlap == <<ov_in, ov_out>>
vars == <<cls, from_logits, iou_thresh, ema_iou, epoch_iou_sum, ema_auc, epoch_auc_sum,
          epoch_batch_count, pc, op, pred, gt, locals, ret, scores, nupd, old, contributed,
          ov_in, ov_out>>

\* AdaptiveIoU.__init__ / AUC.__init__
Init ==
    /\ cls \in {"AdaptiveIoU", "AUC"}
    /\ from_logits \in BOOLEAN
    /\ iou_thresh = (IF cls = "AdaptiveIoU" THEN init_thresh ELSE None)
    /\ ema_iou = (IF cls = "AdaptiveIoU" THEN Zero ELSE None)
    /\ epoch_iou_sum = (IF cls = "AdaptiveIoU" THEN Zero ELSE None)
    /\ ema_auc = (IF cls = "AUC" THEN Zero ELSE None)
    /\ epoch_auc_sum = (IF cls = "AUC" THEN Zero ELSE None)
    /\ epoch_batch_count = 0
    /\ pc = "idle"
    /\ op = "__init__"
    /\ pred = None
    /\ gt = None
    /\ locals = None
    /\ ret = None
    /\ scores = <<>>
    /\ nupd = 0
    /\ old = None
    /\ contributed = FALSE
    /\ ov_in = None
    /\ ov_out = None

\* History: the state a method is called in.
AtCall ==
    [iou_thresh |-> iou_thresh, ema_iou |-> ema_iou, epoch_iou_sum |-> epoch_iou_sum,
     ema_auc |-> ema_auc, epoch_auc_sum |-> epoch_auc_sum,
     epoch_batch_count |-> epoch_batch_count, op |-> op]

\* Some position of some sample of gt is positive.
HasPositive(g) == \E i \in DOMAIN g : \E j \in DOMAIN g[i] : g[i][j] > 0

\* A moving average without memory: the state becomes the value.
Ema_Undamped(rate, state, value) == value

\* A moving average that adds the whole value to the decayed state.
Ema_Accumulate(rate, state, value) == RAdd(RMul(rate, state), value)

\* The moving average with the weights exchanged.
Ema_Exchanged(rate, state, value) == RAdd(RMul(RSub(One, rate), state), RMul(rate, value))

\* state <- rate * state + (1 - rate) * value
Ema(rate, state, value) == RAdd(RMul(rate, state), RMul(RSub(One, rate), value))

(***************************************************************************)
(* AdaptiveIoU                                                             *)
(***************************************************************************)
\* The candidate loop of AdaptiveIoU.update, given the candidates (the current
\* threshold first) and their scores: the locals max_iou and best_thresh after it.
\* A candidate loop that replaces the best candidate on a tie as well.
CandidateLoop_NonStrict(ious, cands) ==
    LET step(st, k) == IF RLeq(st.max_iou, ious[k])
                       THEN [returned_early |-> FALSE, max_iou |-> ious[k], best_thresh |-> cands[k]]
                       ELSE st
    IN step(step([returned_early |-> FALSE, max_iou |-> ious[1], best_thresh |-> cands[1]], 2), 3)

\* A candidate loop that tries the upper candidate before the lower one.
CandidateLoop_UpperFirst(ious, cands) ==
    LET step(st, k) == IF RLess(st.max_iou, ious[k])
                       THEN [returned_early |-> FALSE, max_iou |-> ious[k], best_thresh |-> cands[k]]
                       ELSE st
    IN step(step([returned_early |-> FALSE, max_iou |-> ious[1], best_thresh |-> cands[1]], 3), 2)

CandidateLoop(ious, cands) ==
    LET step(st, k) == IF RLess(st.max_iou, ious[k])
                       THEN [returned_early |-> FALSE, max_iou |-> ious[k], best_thresh |-> cands[k]]
                       ELSE st
    IN step(step([returned_early |-> FALSE, max_iou |-> ious[1], best_thresh |-> cands[1]], 2), 3)

\* The threshold search of AdaptiveIoU.update: each candidate is scored once, by
\* the mean of _compute_iou(pred > candidate, gt_mask, ignore_mask).
ThresholdSearch(p, gt_mask, ignore_mask, thresh) ==
    LET iou_at(t) == Mean(_compute_iou(GreaterThan(p, t), gt_mask, ignore_mask, FALSE))
        cands == <<thresh, RSub(thresh, thresh_step), RAdd(thresh, thresh_step)>>
    IN CHOOSE found \in {CandidateLoop(ious, cands) :
                            ious \in {<<iou_at(cands[1]), iou_at(cands[2]), iou_at(cands[3])>>}} :
           TRUE

\* The locals of an update whose early return counts the positions with gt # 0,
\* the ignored ones included, instead of the positions with gt > 0.
AdaptiveIoU_update_locals_NonZeroArea(pred_, gt_) ==
    IF np_all_zero(nd_sum([i \in DOMAIN gt_ |-> [j \in DOMAIN gt_[i] |-> gt_[i][j] # 0]]))
    THEN [returned_early |-> TRUE]
    ELSE ThresholdSearch(IF from_logits THEN nd_sigmoid(pred_) ELSE pred_,
                         GreaterZero(gt_), EqualTo(gt_, ignore_label), iou_thresh)

\* The locals of an update without the early return on a batch without positives.
AdaptiveIoU_update_locals_NoGuard(pred_, gt_) ==
    ThresholdSearch(IF from_logits THEN nd_sigmoid(pred_) ELSE pred_,
                    GreaterZero(gt_), EqualTo(gt_, ignore_label), iou_thresh)

\* The locals of AdaptiveIoU.update when it returns.
AdaptiveIoU_update_locals(pred_, gt_) ==
    IF np_all_zero(nd_sum(GreaterZero(gt_)))
    THEN [returned_early |-> TRUE]
    ELSE ThresholdSearch(IF from_logits THEN nd_sigmoid(pred_) ELSE pred_,
                         GreaterZero(gt_), EqualTo(gt_, ignore_label), iou_thresh)

\* An update that smooths the score with the rate of the threshold.
AdaptiveIoU_update_OneRate ==
    /\ cls = "AdaptiveIoU"
    /\ pc = "update"
    /\ locals' = AdaptiveIoU_update_locals(pred, gt)
    /\ IF locals'.returned_early
       THEN UNCHANGED <<iou_thresh, ema_iou, epoch_iou_sum, epoch_batch_count>>
       ELSE /\ iou_thresh' = Ema(thresh_beta, iou_thresh, locals'.best_thresh)
            /\ ema_iou' = Ema(thresh_beta, ema_iou, locals'.max_iou)
            /\ epoch_iou_sum' = RAdd(epoch_iou_sum, locals'.max_iou)
            /\ epoch_batch_count' = epoch_batch_count + 1
    /\ scores' = IF HasPositive(gt) THEN Append(scores, locals') ELSE scores
    /\ contributed' = (contributed \/ HasPositive(gt))
    /\ pc' = "idle"
    /\ UNCHANGED <<config, overlap, ema_auc, epoch_auc_sum, op, pred, gt, ret, nupd, old>>

AdaptiveIoU_update ==
    /\ cls = "AdaptiveIoU"
    /\ pc = "update"
    /\ locals' = AdaptiveIoU_update_locals(pred, gt)
    /\ IF locals'.returned_early
       THEN UNCHANGED <<iou_thresh, ema_iou, epoch_iou_sum, epoch_batch_count>>
       ELSE /\ iou_thresh' = Ema(thresh_beta, iou_thresh, locals'.best_thresh)
            /\ ema_iou' = Ema(iou_beta, ema_iou, locals'.max_iou)
            /\ epoch_iou_sum' = RAdd(epoch_iou_sum, locals'.max_iou)
            /\ epoch_batch_count' = epoch_batch_count + 1
    /\ scores' = IF HasPositive(gt) THEN Append(scores, locals') ELSE scores
    /\ contributed' = (contributed \/ HasPositive(gt))
    /\ pc' = "idle"
    /\ UNCHANGED <<config, overlap, ema_auc, epoch_auc_sum, op, pred, gt, ret, nupd, old>>

\* The epoch mean without the test for an empty epoch.
AdaptiveIoU_epoch_value_NoTest == RDiv(epoch_iou_sum, <<epoch_batch_count, 1>>)

AdaptiveIoU_epoch_value ==
    IF epoch_batch_count > 0
    THEN RDiv(epoch_iou_sum, <<epoch_batch_count, 1>>)
    ELSE Zero

AdaptiveIoU_get_epoch_value ==
    /\ cls = "AdaptiveIoU"
    /\ pc = "idle"
    /\ ret' = AdaptiveIoU_epoch_value
    /\ op' = "get_epoch_value"
    /\ old' = AtCall
    /\ pred' = None
    /\ gt' = None
    /\ locals' = None
    /\ UNCHANGED <<config, overlap, fields, pc, scores, nupd, contributed>>

\* A reset that zeroes the epoch sum and keeps the epoch count.
AdaptiveIoU_reset_epoch_stats_KeepCount ==
    /\ cls = "AdaptiveIoU"
    /\ pc = "idle"
    /\ epoch_iou_sum' = Zero
    /\ scores' = <<>>
    /\ op' = "reset_epoch_stats"
    /\ old' = AtCall
    /\ pred' = None
    /\ gt' = None
    /\ locals' = None
    /\ ret' = None
    /\ UNCHANGED <<config, overlap, iou_thresh, ema_iou, ema_auc, epoch_auc_sum,
                   epoch_batch_count, pc, nupd, contributed>>

AdaptiveIoU_reset_epoch_stats ==
    /\ cls = "AdaptiveIoU"
    /\ pc = "idle"
    /\ epoch_iou_sum' = Zero
    /\ epoch_batch_count' = 0
    /\ scores' = <<>>
    /\ op' = "reset_epoch_stats"
    /\ old' = AtCall
    /\ pred' = None
    /\ gt' = None
    /\ locals' = None
    /\ ret' = None
    /\ UNCHANGED <<config, overlap, iou_thresh, ema_iou, ema_auc, epoch_auc_sum, pc, nupd, contributed>>

(***************************************************************************)
(* AUC                                                                     *)
(***************************************************************************)
\* The locals of an update without the early return on a batch without positives.
AUC_update_locals_NoGuard(pred_, gt_) ==
    CHOOSE l \in {[returned_early |-> FALSE, samples_auc |-> a, auc |-> Mean(a)] :
                     a \in {_compute_auc(IF from_logits THEN nd_sigmoid(pred_) ELSE pred_,
                                         GreaterZero(gt_), EqualTo(gt_, ignore_label))}} :
        TRUE

\* The locals of AUC.update when it returns.
AUC_update_locals(pred_, gt_) ==
    IF np_all_zero(nd_sum(GreaterZero(gt_)))
    THEN [returned_early |-> TRUE]
    ELSE CHOOSE l \in {[returned_early |-> FALSE, samples_auc |-> a, auc |-> Mean(a)] :
                          a \in {_compute_auc(IF from_logits THEN nd_sigmoid(pred_) ELSE pred_,
                                              GreaterZero(gt_), EqualTo(gt_, ignore_label))}} :
             TRUE

AUC_update ==
    /\ cls = "AUC"
    /\ pc = "update"
    /\ locals' = AUC_update_locals(pred, gt)
    /\ IF locals'.returned_early
       THEN UNCHANGED <<ema_auc, epoch_auc_sum, epoch_batch_count>>
       ELSE /\ ema_auc' = Ema(beta, ema_auc, locals'.auc)
            /\ epoch_auc_sum' = RAdd(epoch_auc_sum, locals'.auc)
            /\ epoch_batch_count' = epoch_batch_count + 1
    /\ scores' = IF HasPositive(gt) THEN Append(scores, locals') ELSE scores
    /\ contributed' = (contributed \/ HasPositive(gt))
    /\ pc' = "idle"
    /\ UNCHANGED <<config, overlap, iou_thresh, ema_iou, epoch_iou_sum, op, pred, gt, ret, nupd, old>>

AUC_epoch_value ==
    IF epoch_batch_count > 0
    THEN RDiv(epoch_auc_sum, <<epoch_batch_count, 1>>)
    ELSE Zero

AUC_get_epoch_value ==
    /\ cls = "AUC"
    /\ pc = "idle"
    /\ ret' = AUC_epoch_value
    /\ op' = "get_epoch_value"
    /\ old' = AtCall
    /\ pred' = None
    /\ gt' = None
    /\ locals' = None
    /\ UNCHANGED <<config, overlap, fields, pc, scores, nupd, contributed>>

\* A reset that zeroes the moving average as well.
AUC_reset_epoch_stats_All ==
    /\ cls = "AUC"
    /\ pc = "idle"
    /\ ema_auc' = Zero
    /\ epoch_auc_sum' = Zero
    /\ epoch_batch_count' = 0
    /\ scores' = <<>>
    /\ op' = "reset_epoch_stats"
    /\ old' = AtCall
    /\ pred' = None
    /\ gt' = None
    /\ locals' = None
    /\ ret' = None
    /\ UNCHANGED <<config, overlap, iou_thresh, ema_iou, epoch_iou_sum, pc, nupd, contributed>>

AUC_reset_epoch_stats ==
    /\ cls = "AUC"
    /\ pc = "idle"
    /\ epoch_auc_sum' = Zero
    /\ epoch_batch_count' = 0
    /\ scores' = <<>>
    /\ op' = "reset_epoch_stats"
    /\ old' = AtCall
    /\ pred' = None
    /\ gt' = None
    /\ locals' = None
    /\ ret' = None
    /\ UNCHANGED <<config, overlap, iou_thresh, ema_iou, epoch_iou_sum, ema_auc, pc, nupd, contributed>>

(***************************************************************************)
(* The training loop: any sequence of calls on the instance, one at a      *)
(* time.  A call of update binds its arguments, then the method body runs. *)
(***************************************************************************)
TrainingLoop_update ==
    /\ pc = "idle"
    /\ nupd < MaxUpdates
    /\ \E b \in Batches(from_logits) :
          /\ pred' = b.pred
          /\ gt' = b.gt
    /\ pc' = "update"
    /\ op' = "update"
    /\ old' = AtCall
    /\ locals' = None
    /\ ret' = None
    /\ nupd' = nupd + 1
    /\ UNCHANGED <<config, overlap, fields, scores, contributed>>

Next ==
    \/ TrainingLoop_update
    \/ AdaptiveIoU_update
    \/ AdaptiveIoU_get_epoch_value
    \/ AdaptiveIoU_reset_epoch_stats
    \/ AUC_update
    \/ AUC_get_epoch_value
    \/ AUC_reset_epoch_stats

Spec == Init /\ [][Next]_vars

(***************************************************************************)
(* AdaptiveIoU on probabilities (from_logits = False) constructed with an  *)
(* init_thresh close to an end of (0, 1), and predictions close to the     *)
(* ends of (0, 1).                                                         *)
(***************************************************************************)
InitThresholds == {<<1, 10000>>, init_thresh, <<9999, 10000>>}

\* Position kinds <<probability, gt>>.
EdgePixelKinds ==
    {<< <<1, 20000>>, 1 >>, << <<1, 20000>>, 0 >>,
     << <<19999, 20000>>, 1 >>, << <<19999, 20000>>, 0 >>}

EdgeBatches ==
    {[pred |-> [i \in 1..NSamples |-> [j \in 1..NPixels |-> b[i][j][1]]],
      gt |-> [i \in 1..NSamples |-> [j \in 1..NPixels |-> b[i][j][2]]]] :
        b \in [1..NSamples -> [1..NPixels -> EdgePixelKinds]]}

\* AdaptiveIoU.__init__(init_thresh=..., from_logits=False)
InitEdge ==
    /\ cls = "AdaptiveIoU"
    /\ from_logits = FALSE
    /\ iou_thresh \in InitThresholds
    /\ ema_iou = Zero
    /\ epoch_iou_sum = Zero
    /\ ema_auc = None
    /\ epoch_auc_sum = None
    /\ epoch_batch_count = 0
    /\ pc = "idle"
    /\ op = "__init__"
    /\ pred = None
    /\ gt = None
    /\ locals = None
    /\ ret = None
    /\ scores = <<>>
    /\ nupd = 0
    /\ old = None
    /\ contributed = FALSE
    /\ ov_in = None
    /\ ov_out = None

TrainingLoop_update_edge ==
    /\ pc = "idle"
    /\ nupd < MaxUpdates
    /\ \E b \in EdgeBatches :
          /\ pred' = b.pred
          /\ gt' = b.gt
    /\ pc' = "update"
    /\ op' = "update"
    /\ old' = AtCall
    /\ locals' = None
    /\ ret' = None
    /\ nupd' = nupd + 1
    /\ UNCHANGED <<config, overlap, fields, scores, contributed>>

NextEdge ==
    \/ TrainingLoop_update_edge
    \/ AdaptiveIoU_update

SpecEdge == InitEdge /\ [][NextEdge]_vars

(***************************************************************************)
(* _compute_iou on its own: arbitrary boolean gt_mask and ignore_mask (a   *)
(* position may be both positive and ignored), pred_mask = pred > t for    *)
(* the two thresholds t1 < t2, with and without keep_ignore.               *)
(***************************************************************************)
OverlapThresholds == <<init_thresh, RAdd(init_thresh, thresh_step)>>

OverlapPositions == {Raw(FALSE, lv) : lv \in Levels} \X BOOLEAN \X BOOLEAN

OverlapInputs ==
    {[pred |-> [i \in 1..NSamples |-> [j \in 1..NPixels |-> a[i][j][1]]],
      gt_mask |-> [i \in 1..NSamples |-> [j \in 1..NPixels |-> a[i][j][2]]],
      ignore_mask |-> [i \in 1..NSamples |-> [j \in 1..NPixels |-> a[i][j][3]]]] :
        a \in [1..NSamples -> [1..NPixels -> OverlapPositions]]}

InitOverlap ==
    /\ ov_in \in OverlapInputs
    /\ ov_out = None
    /\ cls = None
    /\ from_logits = None
    /\ iou_thresh = None
    /\ ema_iou = None
    /\ epoch_iou_sum = None
    /\ ema_auc = None
    /\ epoch_auc_sum = None
    /\ epoch_batch_count = None
    /\ pc = "_compute_iou"
    /\ op = None
    /\ pred = None
    /\ gt = None
    /\ locals = None
    /\ ret = None
    /\ scores = None
    /\ nupd = None
    /\ old = None
    /\ contributed = None

compute_overlap ==
    /\ pc = "_compute_iou"
    /\ pc' = "returned"
    /\ ov_out' = [k \in 1..2 |->
                    [thresh |-> OverlapThresholds[k],
                     iou |-> _compute_iou(GreaterThan(ov_in.pred, OverlapThresholds[k]),
                                          ov_in.gt_mask, ov_in.ignore_mask, FALSE),
                     kept |-> _compute_iou(GreaterThan(ov_in.pred, OverlapThresholds[k]),
                                           ov_in.gt_mask, ov_in.ignore_mask, TRUE)]]
    /\ UNCHANGED <<config, fields, op, pred, gt, locals, ret, scores, nupd, old, contributed, ov_in>>

SpecOverlap == InitOverlap /\ [][compute_overlap]_vars

(***************************************************************************)
(* Properties.  A method has returned when pc = "idle" and op names it;    *)
(* old holds the fields it was called with, and after update pred, gt and  *)
(* locals hold its arguments and locals.                                   *)
(***************************************************************************)
Returned(c, m) == cls = c /\ pc = "idle" /\ op = m

\* The four fields of AdaptiveIoU are the ones they were at the call.
IoUFieldsAsAtCall ==
    /\ iou_thresh = old.iou_thresh
    /\ ema_iou = old.ema_iou
    /\ epoch_iou_sum = old.epoch_iou_sum
    /\ epoch_batch_count = old.epoch_batch_count

\* C1: AdaptiveIoU.update on a batch in which no sample has a positive ground
\* truth position leaves the threshold, the score average, the epoch sum and the
\* epoch count exactly as they were.
C1_NoPositiveBatchIsNoOp ==
    (Returned("AdaptiveIoU", "update") /\ ~HasPositive(gt)) => IoUFieldsAsAtCall

\* A second update, after a contributing one, on a batch of negative and ignored
\* positions that are predicted positive: it returned early.
C1_Witness ==
    /\ Returned("AdaptiveIoU", "update")
    /\ ~HasPositive(gt)
    /\ \E i \in DOMAIN gt : \E j \in DOMAIN gt[i] :
           gt[i][j] = 0 /\ RLess(init_thresh, IF from_logits THEN sigmoid(pred[i][j]) ELSE pred[i][j])
    /\ \E i \in DOMAIN gt : \E j \in DOMAIN gt[i] : gt[i][j] = ignore_label
    /\ locals.returned_early
    /\ old.epoch_batch_count = 1
    /\ old.iou_thresh # init_thresh
    /\ IoUFieldsAsAtCall

\* C2: one AdaptiveIoU.update moves the threshold by at most
\* (1 - thresh_beta) * thresh_step in absolute value.
C2_ThresholdStepBounded ==
    Returned("AdaptiveIoU", "update") =>
        RLeq(RAbs(RSub(iou_thresh, old.iou_thresh)),
             RMul(RSub(One, thresh_beta), thresh_step))

\* An update that moved an already moved threshold down by the whole bound.
C2_Witness ==
    /\ Returned("AdaptiveIoU", "update")
    /\ old.iou_thresh # init_thresh
    /\ RSub(old.iou_thresh, iou_thresh) = RMul(RSub(One, thresh_beta), thresh_step)

\* The per-batch score of a returned update: max_iou of AdaptiveIoU, auc of AUC.
ScoreOf(l) ==
    IF l.returned_early THEN NaN
    ELSE IF cls = "AdaptiveIoU" THEN l.max_iou ELSE l.auc

\* The scores of the updates since the last reset whose gt had a positive.
ScoresSinceReset == [k \in 1..Len(scores) |-> ScoreOf(scores[k])]
EpochMean == IF Len(scores) = 0 THEN Zero ELSE Mean(ScoresSinceReset)

\* C3: for both metrics, between calls, the epoch count is the number of updates
\* since the last reset (or construction) whose batch had a positive position,
\* and get_epoch_value returns 0 when there is none and otherwise the arithmetic
\* mean of the per-batch scores of exactly those updates.
C3_EpochValueIsMeanOfContributing ==
    pc = "idle" =>
        /\ epoch_batch_count = Len(scores)
        /\ (IF cls = "AdaptiveIoU" THEN AdaptiveIoU_epoch_value ELSE AUC_epoch_value) = EpochMean
        /\ op = "get_epoch_value" => ret = EpochMean

\* get_epoch_value returned the mean of two different scores, after two
\* contributing updates.
C3_Witness ==
    /\ Returned("AdaptiveIoU", "get_epoch_value")
    /\ Len(scores) = 2
    /\ scores[1].max_iou # scores[2].max_iou
    /\ ret = RMul(<<1, 2>>, RAdd(scores[1].max_iou, scores[2].max_iou))
    /\ epoch_batch_count = 2

\* C4: reset_epoch_stats leaves the threshold and the score average of
\* AdaptiveIoU, and the score average of AUC, as they were at the call.
C4_ResetKeepsEma ==
    (pc = "idle" /\ op = "reset_epoch_stats") =>
        /\ iou_thresh = old.iou_thresh
        /\ ema_iou = old.ema_iou
        /\ ema_auc = old.ema_auc

\* A reset of an AUC with a non-empty epoch and a moved average: the epoch
\* fields are zeroed and the average is kept.
C4_Witness ==
    /\ Returned("AUC", "reset_epoch_stats")
    /\ old.epoch_batch_count = 2
    /\ old.epoch_auc_sum # Zero
    /\ epoch_batch_count = 0
    /\ epoch_auc_sum = Zero
    /\ ema_auc # Zero
    /\ ema_auc = old.ema_auc

\* C5: a get_epoch_value called right after reset_epoch_stats returns 0, for
\* both metrics and whatever preceded the reset.
C5_GetAfterResetIsZero ==
    (pc = "idle" /\ op = "get_epoch_value" /\ old.op = "reset_epoch_stats") => ret = Zero

\* get_epoch_value returned 0 right after a reset that two updates preceded,
\* with the score average showing that they contributed.
C5_Witness ==
    /\ Returned("AdaptiveIoU", "get_epoch_value")
    /\ old.op = "reset_epoch_stats"
    /\ nupd = 2
    /\ ema_iou # Zero
    /\ ret = Zero

\* C7: an AdaptiveIoU.update on a batch with a positive position blends
\* best_thresh into the threshold with rate thresh_beta and max_iou into the score
\* average with rate iou_beta, adds max_iou to the epoch sum and one to the epoch
\* count; when best_thresh is the threshold at the call, the threshold is
\* unchanged and the score average moves toward max_iou by the factor 1 - iou_beta.
C7_ContributingUpdateTransition ==
    (Returned("AdaptiveIoU", "update") /\ HasPositive(gt)) =>
        /\ ~locals.returned_early
        /\ iou_thresh = RAdd(RMul(thresh_beta, old.iou_thresh),
                             RMul(RSub(One, thresh_beta), locals.best_thresh))
        /\ ema_iou = RAdd(RMul(iou_beta, old.ema_iou),
                          RMul(RSub(One, iou_beta), locals.max_iou))
        /\ epoch_iou_sum = RAdd(old.epoch_iou_sum, locals.max_iou)
        /\ epoch_batch_count = old.epoch_batch_count + 1
        /\ locals.best_thresh = old.iou_thresh =>
               /\ iou_thresh = old.iou_thresh
               /\ RSub(ema_iou, old.ema_iou) =
                      RMul(RSub(One, iou_beta), RSub(locals.max_iou, old.ema_iou))

\* A second contributing update that selected the current, already moved,
\* threshold: the threshold stayed and the score average moved.
C7_Witness ==
    /\ Returned("AdaptiveIoU", "update")
    /\ HasPositive(gt)
    /\ old.epoch_batch_count = 1
    /\ old.iou_thresh # init_thresh
    /\ locals.best_thresh = old.iou_thresh
    /\ iou_thresh = old.iou_thresh
    /\ ema_iou # old.ema_iou
    /\ epoch_batch_count = 2

\* The samples of the batch with a positive position, in batch order.
PositiveSamples ==
    SelectSeq([i \in DOMAIN gt |-> i], LAMBDA i : \E j \in DOMAIN gt[i] : gt[i][j] > 0)

\* The ranking value of sample i of the batch: the area under the
\* precision-recall curve of its probabilities, zero at ignored positions.
RankingValue(i) ==
    sample_auc([j \in DOMAIN gt[i] |-> gt[i][j] > 0],
               [j \in DOMAIN gt[i] |->
                   IF gt[i][j] = ignore_label THEN Zero
                   ELSE IF from_logits THEN sigmoid(pred[i][j]) ELSE pred[i][j]])

\* C9: AUC.update on a batch with a positive position computes one ranking value
\* per sample that has a positive position, in batch order, and none for the
\* other samples, and adds their mean to the epoch sum; so a first batch of the
\* epoch with a sample without positives and all ranking values 1 gives an epoch
\* mean of exactly 1.
C9_SamplesWithoutPositivesExcluded ==
    (Returned("AUC", "update") /\ HasPositive(gt)) =>
        /\ ~locals.returned_early
        /\ locals.samples_auc =
               [k \in 1..Len(PositiveSamples) |-> RankingValue(PositiveSamples[k])]
        /\ locals.auc = Mean(locals.samples_auc)
        /\ epoch_auc_sum = RAdd(old.epoch_auc_sum, locals.auc)
        /\ epoch_batch_count = old.epoch_batch_count + 1
        /\ ( /\ old.epoch_batch_count = 0
             /\ Len(PositiveSamples) < Len(gt)
             /\ \A k \in DOMAIN locals.samples_auc : locals.samples_auc[k] = One )
           => AUC_epoch_value = One

\* The first update of an AUC on a batch whose first sample has no positive (and
\* a negative predicted above 0.4) and whose second sample has ranking value 1:
\* the epoch mean is 1.
C9_Witness ==
    /\ Returned("AUC", "update")
    /\ \A j \in DOMAIN gt[1] : gt[1][j] <= 0
    /\ \E j \in DOMAIN gt[1] : gt[1][j] = 0
    /\ \E j \in DOMAIN gt[2] : gt[2][j] > 0
    /\ \E j \in DOMAIN gt[2] : gt[2][j] = 0
    /\ locals.samples_auc = <<One>>
    /\ old.epoch_batch_count = 0
    /\ epoch_batch_count = 1
    /\ AUC_epoch_value = One

\* C10: AUC.update on a batch in which no sample has a positive position leaves
\* the score average, the epoch sum and the epoch count as they were, and neither
\* the score average nor the epoch sum is ever the mean of an empty sequence (NaN).
C10_AllExcludedIsNoOp ==
    cls = "AUC" =>
        /\ ~IsNaN(ema_auc)
        /\ ~IsNaN(epoch_auc_sum)
        /\ (Returned("AUC", "update") /\ ~HasPositive(gt)) =>
               /\ ema_auc = old.ema_auc
               /\ epoch_auc_sum = old.epoch_auc_sum
               /\ epoch_batch_count = old.epoch_batch_count

\* A second update of an AUC, after a contributing one, on a batch without
\* positives: it returned early and the fields are the ones before.
C10_Witness ==
    /\ Returned("AUC", "update")
    /\ ~HasPositive(gt)
    /\ locals.returned_early
    /\ old.epoch_batch_count = 1
    /\ old.ema_auc # Zero
    /\ ema_auc = old.ema_auc
    /\ epoch_auc_sum = old.epoch_auc_sum
    /\ epoch_batch_count = 1

(***************************************************************************)
(* Properties of _compute_iou, under SpecOverlap.  ov_out[1] and ov_out[2] *)
(* are its results for pred > t1 and pred > t2, t1 < t2; kept has one      *)
(* entry per sample, -1 for a sample that is not retained.                 *)
(***************************************************************************)
Retained(k, i) == ov_out[k].kept[i] # <<-1, 1>>

\* Sample i has a position outside gt_mask and ignore_mask with pred > t.
FalsePositive(i, t) ==
    \E j \in DOMAIN ov_in.pred[i] :
        RLess(t, ov_in.pred[i][j]) /\ ~ov_in.gt_mask[i][j] /\ ~ov_in.ignore_mask[i][j]

\* The union of sample i is not empty: a position of gt_mask, or a position
\* outside ignore_mask with pred > t.
UnionNotEmpty(i, t) ==
    \E j \in DOMAIN ov_in.pred[i] :
        ov_in.gt_mask[i][j] \/ (RLess(t, ov_in.pred[i][j]) /\ ~ov_in.ignore_mask[i][j])

\* C6, as claimed: for fixed pred, gt_mask and ignore_mask and t1 < t2, the
\* overlap of every sample with pred_mask = pred > t2 is at most its overlap with
\* pred_mask = pred > t1.
C6_OverlapNonIncreasingInThreshold ==
    pc = "returned" =>
        \A i \in DOMAIN ov_in.pred :
            (Retained(1, i) /\ Retained(2, i)) =>
                RLeq(ov_out[2].kept[i], ov_out[1].kept[i])

\* C6, amended: for fixed pred, gt_mask and ignore_mask and t1 < t2, the overlap
\* of a sample with pred_mask = pred > t2 is at most its overlap with
\* pred_mask = pred > t1 when no position of the sample outside gt_mask and
\* ignore_mask has pred > t1.
C6_NonIncreasingWithoutFalsePositives ==
    pc = "returned" =>
        \A i \in DOMAIN ov_in.pred :
            (Retained(1, i) /\ Retained(2, i) /\ ~FalsePositive(i, OverlapThresholds[1])) =>
                RLeq(ov_out[2].kept[i], ov_out[1].kept[i])

\* A sample without false positives whose overlap falls between t1 and t2, next
\* to one whose only prediction outside gt_mask is at an ignored position.
C6_Witness ==
    /\ pc = "returned"
    /\ \E i \in DOMAIN ov_in.pred :
           /\ ~FalsePositive(i, OverlapThresholds[1])
           /\ Retained(2, i)
           /\ RLess(Zero, ov_out[2].kept[i])
           /\ RLess(ov_out[2].kept[i], ov_out[1].kept[i])
    /\ \E i \in DOMAIN ov_in.pred :
           /\ ~FalsePositive(i, OverlapThresholds[1])
           /\ Retained(1, i)
           /\ Retained(2, i)
           /\ \E j \in DOMAIN ov_in.pred[i] :
                  /\ RLess(OverlapThresholds[1], ov_in.pred[i][j])
                  /\ ~RLess(OverlapThresholds[2], ov_in.pred[i][j])
                  /\ ~ov_in.gt_mask[i][j]
                  /\ ov_in.ignore_mask[i][j]

\* C8: _compute_iou returns one value for each sample whose union is not empty,
\* and every value it returns is in [0, 1], for all boolean pred_mask, gt_mask
\* and ignore_mask.
C8_OverlapInUnitInterval ==
    pc = "returned" =>
        \A k \in DOMAIN ov_out :
            /\ Len(ov_out[k].iou) =
                   Cardinality({i \in DOMAIN ov_in.pred : UnionNotEmpty(i, ov_out[k].thresh)})
            /\ \A m \in DOMAIN ov_out[k].iou :
                   RLeq(Zero, ov_out[k].iou[m]) /\ RLeq(ov_out[k].iou[m], One)
            /\ \A i \in DOMAIN ov_out[k].kept :
                   IF UnionNotEmpty(i, ov_out[k].thresh)
                   THEN RLeq(Zero, ov_out[k].kept[i]) /\ RLeq(ov_out[k].kept[i], One)
                   ELSE ~Retained(k, i)

\* A batch with a sample of overlap 1/2 and a sample that is not retained, its
\* only prediction being at an ignored position.
C8_Witness ==
    /\ pc = "returned"
    /\ ov_out[1].iou = << <<1, 2>> >>
    /\ \E i \in DOMAIN ov_in.pred :
           /\ ~Retained(1, i)
           /\ \E j \in DOMAIN ov_in.pred[i] :
                  RLess(OverlapThresholds[1], ov_in.pred[i][j]) /\ ov_in.ignore_mask[i][j]

(***************************************************************************)
(* Properties of the threshold search, under Spec.                         *)
(***************************************************************************)
\* The probabilities of the batch of the last update.
Probabilities == IF from_logits THEN nd_sigmoid(pred) ELSE pred

\* The overlaps _compute_iou returns for the batch of the last update with
\* pred_mask = probability > t.
OverlapsAt(t) ==
    _compute_iou(GreaterThan(Probabilities, t), GreaterZero(gt), EqualTo(gt, ignore_label), FALSE)

\* The scores of the candidates threshold, threshold - thresh_step and
\* threshold + thresh_step of the last update, for the threshold at its call.
CandidateScores ==
    <<Mean(OverlapsAt(old.iou_thresh)),
      Mean(OverlapsAt(RSub(old.iou_thresh, thresh_step))),
      Mean(OverlapsAt(RAdd(old.iou_thresh, thresh_step)))>>

\* C11: in an AdaptiveIoU.update on a batch with a positive position, max_iou is
\* the maximum of the mean overlaps of the three candidates, best_thresh is one
\* of the candidates and scores max_iou, and best_thresh is the threshold at the
\* call unless a perturbed candidate scores strictly higher than it.
C11_BestIsMaximumTiesKeepCurrent ==
    (Returned("AdaptiveIoU", "update") /\ HasPositive(gt)) =>
        \A s \in {CandidateScores} :
            /\ \E k \in 1..3 : locals.max_iou = s[k]
            /\ \A k \in 1..3 : RLeq(s[k], locals.max_iou)
            /\ \/ locals.best_thresh = old.iou_thresh /\ locals.max_iou = s[1]
               \/ locals.best_thresh = RSub(old.iou_thresh, thresh_step) /\ locals.max_iou = s[2]
               \/ locals.best_thresh = RAdd(old.iou_thresh, thresh_step) /\ locals.max_iou = s[3]
            /\ (RLeq(s[2], s[1]) /\ RLeq(s[3], s[1])) <=> locals.best_thresh = old.iou_thresh

\* An update, at an already moved threshold, in which both perturbed candidates
\* tie with the current threshold: the current threshold was selected.
C11_Witness ==
    /\ Returned("AdaptiveIoU", "update")
    /\ HasPositive(gt)
    /\ old.iou_thresh # init_thresh
    /\ \E s \in {CandidateScores} :
           /\ s[2] = s[1]
           /\ s[3] = s[1]
           /\ RLess(Zero, s[1])
           /\ locals.max_iou = s[1]
    /\ locals.best_thresh = old.iou_thresh
    /\ iou_thresh = old.iou_thresh

\* C17: when both perturbed candidates score strictly higher than the current
\* threshold and equal to each other, AdaptiveIoU.update selects
\* threshold - thresh_step as best_thresh and the threshold moves down.
C17_EqualPerturbedSelectsLower ==
    (Returned("AdaptiveIoU", "update") /\ HasPositive(gt)) =>
        \A s \in {CandidateScores} :
            (RLess(s[1], s[2]) /\ s[2] = s[3]) =>
                /\ locals.best_thresh = RSub(old.iou_thresh, thresh_step)
                /\ locals.max_iou = s[2]
                /\ RLess(iou_thresh, old.iou_thresh)

\* An update whose candidates score 1/2 at the current threshold and 3/4 at
\* both perturbed ones: the threshold moved down by (1 - thresh_beta) * thresh_step.
C17_Witness ==
    /\ Returned("AdaptiveIoU", "update")
    /\ CandidateScores = << <<1, 2>>, <<3, 4>>, <<3, 4>> >>
    /\ locals.best_thresh = RSub(old.iou_thresh, thresh_step)
    /\ RSub(old.iou_thresh, iou_thresh) = RMul(RSub(One, thresh_beta), thresh_step)

\* The overlap of sample i when positions of ignore_mask count neither for the
\* intersection nor for the union, whatever pred and gt_mask hold there; -1 when
\* nothing is left in the union.
OverlapIgnoring(i, t) ==
    LET counted == {j \in DOMAIN ov_in.pred[i] : ~ov_in.ignore_mask[i][j]}
        u == {j \in counted : ov_in.gt_mask[i][j] \/ RLess(t, ov_in.pred[i][j])}
        n == {j \in counted : ov_in.gt_mask[i][j] /\ RLess(t, ov_in.pred[i][j])}
    IN IF u = {} THEN <<-1, 1>> ELSE Rat(Cardinality(n), Cardinality(u))

\* C12: a position where ignore_mask is true is excluded from the intersection
\* and from the union of _compute_iou whatever pred_mask and gt_mask hold there,
\* a position that is both positive in gt_mask and ignored included.
C12_IgnoreTakesPrecedence ==
    pc = "returned" =>
        \A k \in DOMAIN ov_out : \A i \in DOMAIN ov_out[k].kept :
            ov_out[k].kept[i] = OverlapIgnoring(i, ov_out[k].thresh)

\* The overlap of sample i as the quotient of position counts: the intersection
\* is gt_mask and pred > t outside ignore_mask, the union is gt_mask or
\* pred > t outside ignore_mask.
OverlapRatio(i, t) ==
    LET p == {j \in DOMAIN ov_in.pred[i] :
                 RLess(t, ov_in.pred[i][j]) /\ ~ov_in.ignore_mask[i][j]}
        g == {j \in DOMAIN ov_in.pred[i] : ov_in.gt_mask[i][j]}
    IN Rat(Cardinality(p \cap g), Cardinality(p \cup g))

\* The samples whose union is not empty, in batch order.
RetainedSamples(t) ==
    SelectSeq([i \in DOMAIN ov_in.pred |-> i], LAMBDA i : UnionNotEmpty(i, t))

\* C14: in the default mode _compute_iou returns exactly one entry per sample
\* with union > 0, in batch order, and none for the others; with keep_ignore it
\* returns one entry per sample, -1 exactly at the samples with union = 0 and
\* intersection / union at the others.
C14_EmptyUnionDroppedOrSentinel ==
    pc = "returned" =>
        \A k \in DOMAIN ov_out :
            /\ ov_out[k].iou =
                   [m \in 1..Len(RetainedSamples(ov_out[k].thresh)) |->
                       OverlapRatio(RetainedSamples(ov_out[k].thresh)[m], ov_out[k].thresh)]
            /\ ov_out[k].kept =
                   [i \in DOMAIN ov_in.pred |->
                       IF UnionNotEmpty(i, ov_out[k].thresh)
                       THEN OverlapRatio(i, ov_out[k].thresh)
                       ELSE <<-1, 1>>]

\* A batch whose first sample has an empty union and whose last sample has
\* overlap 1/2: the default result has the one entry, the other has -1 first.
C14_Witness ==
    /\ pc = "returned"
    /\ ~UnionNotEmpty(1, OverlapThresholds[1])
    /\ ov_out[1].kept[1] = <<-1, 1>>
    /\ ov_out[1].kept[Len(ov_out[1].kept)] = <<1, 2>>
    /\ Len(ov_out[1].iou) < Len(ov_out[1].kept)
    /\ ov_out[1].iou[Len(ov_out[1].iou)] = <<1, 2>>

\* C15: when AdaptiveIoU.update gets past the early return, _compute_iou retains
\* every sample with a positive position, so at least one, at each of the three
\* candidate thresholds, and max_iou is a number, not the mean of an empty array.
C15_CandidateMeansOverNonEmpty ==
    (Returned("AdaptiveIoU", "update") /\ ~locals.returned_early) =>
        /\ \A t \in {old.iou_thresh, RSub(old.iou_thresh, thresh_step),
                      RAdd(old.iou_thresh, thresh_step)} :
               /\ Len(OverlapsAt(t)) >= 1
               /\ Len(OverlapsAt(t)) >= Len(PositiveSamples)
        /\ ~IsNaN(locals.max_iou)
        /\ ~IsNaN(iou_thresh)
        /\ ~IsNaN(ema_iou)
        /\ ~IsNaN(epoch_iou_sum)

\* An update that got past the early return on a batch with one sample without
\* positives, dropped at the upper candidate, and one with.
C15_Witness ==
    /\ Returned("AdaptiveIoU", "update")
    /\ ~locals.returned_early
    /\ Len(PositiveSamples) = 1
    /\ Len(OverlapsAt(old.iou_thresh)) = 2
    /\ Len(OverlapsAt(RAdd(old.iou_thresh, thresh_step))) = 1
    /\ ~IsNaN(locals.max_iou)

\* C16: the score average of AdaptiveIoU is always in [0, 1], and 0 until an
\* update on a batch with a positive position has returned; get_epoch_value
\* always returns a value in [0, 1].
C16_ScoresInUnitInterval ==
    (cls = "AdaptiveIoU" /\ pc = "idle") =>
        /\ RLeq(Zero, ema_iou) /\ RLeq(ema_iou, One)
        /\ ~contributed => ema_iou = Zero
        /\ RLeq(Zero, AdaptiveIoU_epoch_value) /\ RLeq(AdaptiveIoU_epoch_value, One)
        /\ op = "get_epoch_value" => RLeq(Zero, ret) /\ RLeq(ret, One)

\* get_epoch_value returned a value strictly between 0 and 1 after two updates
\* that both contributed: the score average is above 1/10 and below 1.
C16_Witness ==
    /\ Returned("AdaptiveIoU", "get_epoch_value")
    /\ nupd = 2
    /\ epoch_batch_count = 2
    /\ RLess(Zero, ret) /\ RLess(ret, One)
    /\ RLess(<<1, 10>>, ema_iou) /\ RLess(ema_iou, One)

(***************************************************************************)
(* Properties of the range of the threshold, under SpecEdge.               *)
(***************************************************************************)
\* The largest move of the threshold in one update: (1 - thresh_beta) * thresh_step.
MaxMove == RMul(RSub(One, thresh_beta), thresh_step)

\* C13, as claimed: with probabilities in (0, 1) and init_thresh in (0, 1), the
\* threshold of AdaptiveIoU is in (0, 1) after any sequence of updates.
C13_ThresholdInUnitInterval ==
    cls = "AdaptiveIoU" => RLess(Zero, iou_thresh) /\ RLess(iou_thresh, One)

\* C13, amended: with probabilities in (0, 1) and init_thresh in (0, 1), the
\* threshold of AdaptiveIoU stays below 1 and above -(1 - thresh_beta) * thresh_step
\* after any sequence of updates, and an update leaves it in (0, 1) when it was
\* called with a threshold in (0, 1) above (1 - thresh_beta) * thresh_step.
C13_ThresholdAboveMinusMoveBelowOne ==
    cls = "AdaptiveIoU" =>
        /\ RLess(RNeg(MaxMove), iou_thresh)
        /\ RLess(iou_thresh, One)
        /\ (pc = "idle" /\ op = "update" /\ RLess(MaxMove, old.iou_thresh)) =>
               RLess(Zero, iou_thresh)

\* A second update, called with the threshold below 0 that the first one left:
\* the lower candidate no longer scores higher and the threshold stays.
C13_Witness ==
    /\ Returned("AdaptiveIoU", "update")
    /\ nupd = 2
    /\ HasPositive(gt)
    /\ RLess(old.iou_thresh, Zero)
    /\ RLess(iou_thresh, Zero)
    /\ ~RLess(iou_thresh, old.iou_thresh)
    /\ \E i \in DOMAIN gt : \E j \in DOMAIN gt[i] :
           gt[i][j] > 0 /\ RLess(pred[i][j], <<1, 10000>>)

====
